---- MODULE Spec2Model ----
(***************************************************************************)
(* A model of lakera_clip/preprocessor.py (class Preprocess) and of the    *)
(* Tokenizer contract exercised by tests/test_tokenizer.py.                *)
(*                                                                         *)
(* Arrays (numpy ndarrays) are modelled by their shape, the rectangle of   *)
(* cells that holds samples of the resized image, the per-channel value of *)
(* those samples and the per-channel value of every other cell.  Input     *)
(* images are uniformly coloured, for which linear interpolation returns   *)
(* the same colour at every resized pixel.  Real numbers are exact         *)
(* fractions <<numerator, denominator>>; NORM_MEAN and NORM_STD are held   *)
(* in thousandths.                                                         *)
(***************************************************************************)
EXTENDS Integers, Sequences, FiniteSets, TLC

VARIABLES
    cls,        \* the class attributes of Preprocess (shared by every call)
    pc,         \* pc[t]: where call t stands in encode_image
    arg,        \* arg[t]: the argument of encode_image
    img,        \* img[t]: the local variable img
    resized_h,  \* resized_h[t], resized_w[t]: locals of _smart_resize
    resized_w,
    padding,    \* padding[t]: the pad widths handed to np.pad
    err,        \* err[t]: the exception that ended the call, or "none"
    tpc,        \* where the tokenizer test stands
    text,       \* the text handed to Tokenizer.encode_text
    terr        \* the exception encode_text raised, or "none"

vars == <<cls, pc, arg, img, resized_h, resized_w, padding, err, tpc, text, terr>>
imgVars == <<cls, pc, arg, img, resized_h, resized_w, padding, err>>
tokVars == <<tpc, text, terr>>

(***************************************************************************)
(* Program constants                                                       *)
(***************************************************************************)
CLIP_INPUT_SIZE == 224
CROP_CENTER_PADDING == 224
NORM_MEAN == <<485, 456, 406>>
NORM_STD == <<229, 224, 225>>
\* The sample range of an 8-bit image, the divisor of line 90.
SCALE == 255
\* 1 * 3 * 224 * 224, the element count reshape(1, 3, 224, 224) demands.
TENSOR_SHAPE == <<1, 3, 224, 224>>

ClassAttrs ==
    [CLIP_INPUT_SIZE |-> CLIP_INPUT_SIZE,
     CROP_CENTER_PADDING |-> CROP_CENTER_PADDING,
     NORM_MEAN |-> NORM_MEAN,
     NORM_STD |-> NORM_STD]

(***************************************************************************)
(* Bounds of the model                                                     *)
(***************************************************************************)
\* Every height and width from 0 to MaxSmall is an input dimension.
MaxSmall == 24
\* Every height and width from 1 to MaxThreadDim is an input of SpecThreads.
MaxThreadDim == 1

\* Larger dimensions: rounding ties (64), the crop window's edges, the canvas
\* side and the aspect ratios at which the shorter side rounds to zero.
Landmarks == {64, 223, 224, 225, 447, 448, 671, 672, 673, 1000, 1343, 1344, 1345, 2688}
Dims == (0 .. MaxSmall) \cup Landmarks

\* The callers: one in Spec, both (concurrently) in SpecThreads.
Threads == {"t1", "t2"}

(***************************************************************************)
(* Arithmetic                                                              *)
(***************************************************************************)
Max(a, b) == IF a >= b THEN a ELSE b
Min(a, b) == IF a <= b THEN a ELSE b

\* Python's round(n / d) for integers n >= 0, d > 0: nearest integer, a tie
\* going to the even neighbour.  n / d is a correctly rounded double, which is
\* a tie exactly when the quotient is (for image sizes below 2^21).  The mutant
\* rounds a tie up.
RoundHalfUp(n, d) == (2 * n + d) \div (2 * d)
Round(n, d) ==
    LET q == n \div d
        r == n % d
    IN  IF 2 * r < d THEN q
        ELSE IF 2 * r > d THEN q + 1
        ELSE IF q % 2 = 0 THEN q ELSE q + 1

RECURSIVE GCD(_, _)
GCD(a, b) == IF b = 0 THEN a ELSE GCD(b, a % b)
Abs(a) == IF a < 0 THEN 0 - a ELSE a
\* A fraction with a positive denominator, in lowest terms.
Reduce(x) == LET g == GCD(Abs(x[1]), x[2]) IN <<x[1] \div g, x[2] \div g>>
\* Two fractions denote the same number.
RatEq(x, y) == Reduce(x) = Reduce(y)

Product(s) ==
    LET F[i \in 0 .. Len(s)] == IF i = 0 THEN 1 ELSE s[i] * F[i - 1]
    IN  F[Len(s)]

(***************************************************************************)
(* Arrays                                                                  *)
(***************************************************************************)
NoArr ==
    [shape |-> <<>>, axes |-> "", top |-> 0, left |-> 0, bottom |-> 0, right |-> 0,
     px |-> <<>>, fill |-> <<>>]

\* Index of the row axis in the shape.
RowAxis(a) == CASE a.axes = "HW" -> 1 [] a.axes = "HWC" -> 1
                [] a.axes = "CHW" -> 2 [] a.axes = "NCHW" -> 3
Rows(a) == a.shape[RowAxis(a)]
Cols(a) == a.shape[RowAxis(a) + 1]
NDim(a) == Len(a.shape)
Size(a) == Product(a.shape)

\* Cell (r, c) holds a sample of the resized image (otherwise: padding).
InImage(a, r, c) == r >= a.top /\ r < a.bottom /\ c >= a.left /\ c < a.right
\* Value of channel ch at cell (r, c); a 2-D array has the one channel 1.
At(a, r, c, ch) == IF InImage(a, r, c) THEN a.px[ch] ELSE a.fill[ch]

\* np.array(img) of a PIL image: (h, w) for mode "L", (h, w, 3) for "RGB".
NpArray(a) ==
    [shape |-> IF a.mode = "L" THEN <<a.h, a.w>> ELSE <<a.h, a.w, 3>>,
     axes |-> IF a.mode = "L" THEN "HW" ELSE "HWC",
     top |-> 0, left |-> 0, bottom |-> a.h, right |-> a.w,
     px |-> [i \in DOMAIN a.px |-> <<a.px[i], 1>>],
     fill |-> [i \in DOMAIN a.px |-> <<0, 1>>]]

\* cv.resize(a, (w, h), interpolation=INTER_LINEAR) rejects an empty source and
\* a destination size that is not positive on both axes (cv2.error).
CvResizeFails(a, w, h) == Rows(a) = 0 \/ Cols(a) = 0 \/ w <= 0 \/ h <= 0
\* Otherwise the result is h x w with the channel axis kept; every pixel of a
\* uniformly coloured source interpolates to that colour.
CvResize(a, w, h) ==
    [a EXCEPT !.shape = IF NDim(a) = 2 THEN <<h, w>> ELSE <<h, w, a.shape[3]>>,
              !.top = 0, !.left = 0, !.bottom = h, !.right = w]

\* np.pad(a, padding, constant_values=0): padding[i] = <<before, after>> of
\* axis i; it rejects negative widths and a padding of the wrong rank.
NpPadFails(a, p) ==
    \/ Len(p) # NDim(a)
    \/ \E i \in DOMAIN p : p[i][1] < 0 \/ p[i][2] < 0
NpPad(a, p) ==
    [a EXCEPT !.shape = [i \in DOMAIN a.shape |-> a.shape[i] + p[i][1] + p[i][2]],
              !.top = a.top + p[1][1], !.bottom = a.bottom + p[1][1],
              !.left = a.left + p[2][1], !.right = a.right + p[2][1],
              !.fill = [i \in DOMAIN a.fill |-> <<0, 1>>]]

\* A slice bound i on an axis of length n, as Python resolves it.
SliceIdx(n, i) == IF i < 0 THEN Max(n + i, 0) ELSE Min(i, n)
\* a[lo : hi, lo : hi] on the two leading axes.
Slice2(a, lo, hi) ==
    LET r0 == SliceIdx(a.shape[1], lo)
        r1 == Max(SliceIdx(a.shape[1], hi), r0)
        c0 == SliceIdx(a.shape[2], lo)
        c1 == Max(SliceIdx(a.shape[2], hi), c0)
        clampR(x) == Max(0, Min(x - r0, r1 - r0))
        clampC(x) == Max(0, Min(x - c0, c1 - c0))
    IN  [a EXCEPT !.shape = [i \in DOMAIN a.shape |->
                                IF i = 1 THEN r1 - r0
                                ELSE IF i = 2 THEN c1 - c0 ELSE a.shape[i]],
                  !.top = clampR(a.top), !.bottom = clampR(a.bottom),
                  !.left = clampC(a.left), !.right = clampC(a.right)]

\* a / 255.0, element by element.
DivScalar(a, k) ==
    [a EXCEPT !.px = [i \in DOMAIN a.px |-> <<a.px[i][1], a.px[i][2] * k>>],
              !.fill = [i \in DOMAIN a.fill |-> <<a.fill[i][1], a.fill[i][2] * k>>]]

\* np.expand_dims(a, axis=2) of a 2-D array, then np.concatenate((a,) * 3, axis=2).
\* The mutant fills the second and third channel with zeros.
ExpandConcatFirstOnly(a) ==
    [a EXCEPT !.shape = <<a.shape[1], a.shape[2], 3>>, !.axes = "HWC",
              !.px = <<a.px[1], <<0, 1>>, <<0, 1>>>>,
              !.fill = <<a.fill[1], <<0, 1>>, <<0, 1>>>>]
ExpandConcat(a) ==
    [a EXCEPT !.shape = <<a.shape[1], a.shape[2], 3>>, !.axes = "HWC",
              !.px = <<a.px[1], a.px[1], a.px[1]>>,
              !.fill = <<a.fill[1], a.fill[1], a.fill[1]>>]

\* (x - mean / 1000) / (std / 1000) of a fraction x.
NormValue(x, mean, std) == <<1000 * x[1] - mean * x[2], std * x[2]>>
\* (a - mean) / std with mean and std of shape (1, 1, 3): broadcasting needs a
\* 3-D array whose last axis has length 3 (or 1).
BroadcastFails(a) == NDim(a) # 3 \/ a.shape[3] \notin {1, 3}
SubDiv(a, mean, std) ==
    [a EXCEPT !.shape = <<a.shape[1], a.shape[2], 3>>,
              !.px = [c \in 1 .. 3 |->
                        NormValue(a.px[IF Len(a.px) = 1 THEN 1 ELSE c], mean[c], std[c])],
              !.fill = [c \in 1 .. 3 |->
                        NormValue(a.fill[IF Len(a.fill) = 1 THEN 1 ELSE c], mean[c], std[c])]]

\* np.transpose(a, (2, 0, 1)).
Transpose(a) == [a EXCEPT !.shape = <<a.shape[3], a.shape[1], a.shape[2]>>, !.axes = "CHW"]
\* a.reshape(1, 3, 224, 224) needs exactly that many elements.
ReshapeFails(a) == Size(a) # Product(TENSOR_SHAPE)
Reshape(a) == [a EXCEPT !.shape = TENSOR_SHAPE, !.axes = "NCHW"]

(***************************************************************************)
(* Arguments of encode_image                                               *)
(***************************************************************************)
Colours(mode) == IF mode = "L" THEN {<<0>>, <<200>>} ELSE {<<0, 0, 0>>, <<255, 128, 7>>}

\* PIL images of h rows and w columns, h and w drawn from D.
PilImages(D) ==
    {[kind |-> "PIL", mode |-> m, h |-> h, w |-> w, px |-> p] :
        m \in {"L"}, h \in D, w \in D, p \in Colours("L")}
    \cup
    {[kind |-> "PIL", mode |-> m, h |-> h, w |-> w, px |-> p] :
        m \in {"RGB"}, h \in D, w \in D, p \in Colours("RGB")}

\* Arguments that are no PIL image: a byte buffer, a plain array.
NonImages ==
    {[kind |-> "bytes", mode |-> "", h |-> 0, w |-> 0, px |-> <<>>],
     [kind |-> "ndarray", mode |-> "L", h |-> 2, w |-> 3, px |-> <<200>>],
     [kind |-> "ndarray", mode |-> "RGB", h |-> 3, w |-> 2, px |-> <<255, 128, 7>>]}

NoArg == [kind |-> "none", mode |-> "", h |-> 0, w |-> 0, px |-> <<>>]

Args == PilImages(Dims) \cup NonImages
ThreadArgs == PilImages((1 .. MaxThreadDim) \cup {1344}) \cup NonImages

(***************************************************************************)
(* Preprocess                                                              *)
(***************************************************************************)
\* isinstance(img, Image.Image).  The mutant accepts anything array-like.
IsInstanceDuck(a) == a.kind \in {"PIL", "ndarray"}
IsInstanceImage(a) == a.kind = "PIL"

\* resized_sq_size, line 22.  The mutant counts the padding once.
ResizedSqSizeOnePad == cls.CLIP_INPUT_SIZE + cls.CROP_CENTER_PADDING
ResizedSqSize == cls.CLIP_INPUT_SIZE + 2 * cls.CROP_CENTER_PADDING

\* <<resized_h, resized_w>> of lines 28-33, for h > w or w > 0.
ResizedDims(h, w) ==
    IF h > w
    THEN <<ResizedSqSize, Round(ResizedSqSize * w, h)>>
    ELSE <<Round(ResizedSqSize * h, w), ResizedSqSize>>

\* vert_pad, hor_pad: residual // 2.  The mutants round the half up, and put
\* the whole residual on the trailing side.
HalfPadCeil(residual) == (residual + 1) \div 2
HalfPadNone(residual) == 0
HalfPad(residual) == residual \div 2

\* The padding tuple of lines 43-54 for array a.
PaddingFor(a, vert_residual, hor_residual) ==
    LET vert_pad == HalfPad(vert_residual)
        hor_pad == HalfPad(hor_residual)
    IN  IF NDim(a) = 3
        THEN << <<vert_pad, vert_residual - vert_pad>>,
                <<hor_pad, hor_residual - hor_pad>>,
                <<0, 0>> >>
        ELSE << <<vert_pad, vert_residual - vert_pad>>,
                <<hor_pad, hor_residual - hor_pad>> >>

\* The crop of lines 84-87: img[PAD : -PAD, PAD : -PAD].  The mutant is off
\* by one on both bounds.
CropShifted(a) == Slice2(a, cls.CROP_CENTER_PADDING + 1, 1 - cls.CROP_CENTER_PADDING)
CropCenter(a) == Slice2(a, cls.CROP_CENTER_PADDING, 0 - cls.CROP_CENTER_PADDING)

Raise(t, e) ==
    /\ pc' = [pc EXCEPT ![t] = "raised"]
    /\ err' = [err EXCEPT ![t] = e]

Goto(t, l) ==
    /\ pc' = [pc EXCEPT ![t] = l]
    /\ err' = err

\* A caller enters encode_image(a).
Call(t, a) ==
    /\ pc[t] = "idle"
    /\ arg' = [arg EXCEPT ![t] = a]
    /\ img' = [img EXCEPT ![t] = NoArr]
    /\ resized_h' = [resized_h EXCEPT ![t] = 0]
    /\ resized_w' = [resized_w EXCEPT ![t] = 0]
    /\ padding' = [padding EXCEPT ![t] = <<>>]
    /\ pc' = [pc EXCEPT ![t] = "assert_pil"]
    /\ err' = [err EXCEPT ![t] = "none"]
    /\ UNCHANGED <<cls, tokVars>>

\* self._assert_pil(img), line 79
AssertPil(t) ==
    /\ pc[t] = "assert_pil"
    /\ IF IsInstanceImage(arg[t])
       THEN Goto(t, "resize")
       ELSE Raise(t, "AssertionError")
    /\ UNCHANGED <<cls, arg, img, resized_h, resized_w, padding, tokVars>>

\* _smart_resize up to cv.resize, lines 18-36.  A 0 x 0 image divides by zero
\* on line 33; any other size that is, or rounds to, zero on a side reaches
\* cv.resize, which rejects it.
Resize(t) ==
    /\ pc[t] = "resize"
    /\ LET a == NpArray(arg[t])
           h == a.shape[1]
           w == a.shape[2]
       IN  IF ~(h > w) /\ w = 0
           THEN /\ Raise(t, "ZeroDivisionError")
                /\ img' = [img EXCEPT ![t] = a]
                /\ resized_w' = [resized_w EXCEPT ![t] = ResizedSqSize]
                /\ UNCHANGED resized_h
           ELSE LET d == ResizedDims(h, w)
                IN  /\ resized_h' = [resized_h EXCEPT ![t] = d[1]]
                    /\ resized_w' = [resized_w EXCEPT ![t] = d[2]]
                    /\ IF CvResizeFails(a, d[2], d[1])
                       THEN /\ Raise(t, "cv2.error")
                            /\ img' = [img EXCEPT ![t] = a]
                       ELSE /\ Goto(t, "pad")
                            /\ img' = [img EXCEPT ![t] = CvResize(a, d[2], d[1])]
    /\ UNCHANGED <<cls, arg, padding, tokVars>>

\* _smart_resize from the residuals to np.pad, lines 38-61
Pad(t) ==
    /\ pc[t] = "pad"
    /\ LET vert_residual == ResizedSqSize - resized_h[t]
           hor_residual == ResizedSqSize - resized_w[t]
           p == PaddingFor(img[t], vert_residual, hor_residual)
       IN  /\ padding' = [padding EXCEPT ![t] = p]
           /\ IF NpPadFails(img[t], p)
              THEN Raise(t, "ValueError") /\ UNCHANGED img
              ELSE Goto(t, "crop") /\ img' = [img EXCEPT ![t] = NpPad(img[t], p)]
    /\ UNCHANGED <<cls, arg, resized_h, resized_w, tokVars>>

\* Crop the center, lines 84-87
Crop(t) ==
    /\ pc[t] = "crop"
    /\ img' = [img EXCEPT ![t] = CropCenter(img[t])]
    /\ Goto(t, "scale")
    /\ UNCHANGED <<cls, arg, resized_h, resized_w, padding, tokVars>>

\* Normalize to values [0, 1], line 90
Scale(t) ==
    /\ pc[t] = "scale"
    /\ img' = [img EXCEPT ![t] = DivScalar(img[t], SCALE)]
    /\ Goto(t, "gray")
    /\ UNCHANGED <<cls, arg, resized_h, resized_w, padding, tokVars>>

\* Handle Grayscale, lines 93-96
Grayscale(t) ==
    /\ pc[t] = "gray"
    /\ img' = [img EXCEPT ![t] = IF NDim(img[t]) = 2 THEN ExpandConcat(img[t]) ELSE img[t]]
    /\ Goto(t, "normalize")
    /\ UNCHANGED <<cls, arg, resized_h, resized_w, padding, tokVars>>

\* Normalize channels, line 99.  The mutant scales the shared NORM_MEAN in
\* place before using it.
NormalizeChannelsInPlace(t) ==
    /\ pc[t] = "normalize"
    /\ cls' = [cls EXCEPT !.NORM_MEAN = [c \in 1 .. 3 |-> cls.NORM_MEAN[c] + 1]]
    /\ IF BroadcastFails(img[t])
       THEN Raise(t, "ValueError") /\ UNCHANGED img
       ELSE /\ Goto(t, "tensor")
            /\ img' = [img EXCEPT ![t] = SubDiv(img[t], cls'.NORM_MEAN, cls.NORM_STD)]
    /\ UNCHANGED <<arg, resized_h, resized_w, padding, tokVars>>
NormalizeChannels(t) ==
    /\ pc[t] = "normalize"
    /\ IF BroadcastFails(img[t])
       THEN Raise(t, "ValueError") /\ UNCHANGED img
       ELSE /\ Goto(t, "tensor")
            /\ img' = [img EXCEPT ![t] = SubDiv(img[t], cls.NORM_MEAN, cls.NORM_STD)]
    /\ UNCHANGED <<cls, arg, resized_h, resized_w, padding, tokVars>>

\* Transpose, cast and reshape, lines 102-105
ToTensor(t) ==
    /\ pc[t] = "tensor"
    /\ LET a == Transpose(img[t])
       IN  IF ReshapeFails(a)
           THEN Raise(t, "ValueError") /\ img' = [img EXCEPT ![t] = a]
           ELSE Goto(t, "returned") /\ img' = [img EXCEPT ![t] = Reshape(a)]
    /\ UNCHANGED <<cls, arg, resized_h, resized_w, padding, tokVars>>

\* The call is over (returned or raised); its caller may call again.
Release(t) ==
    /\ pc[t] \in {"returned", "raised"}
    /\ pc' = [pc EXCEPT ![t] = "idle"]
    /\ UNCHANGED <<cls, arg, img, resized_h, resized_w, padding, err, tokVars>>

(***************************************************************************)
(* Tokenizer (its code is not in the sources; modelled from its contract)  *)
(***************************************************************************)
\* range(100) of test_text_too_long
TEST_RANGE == 100
\* The model's maximum token length.
CONTEXT_LENGTH == 77

\* str(i) as a sequence of decimal digits.
RECURSIVE Str(_)
Str(i) == IF i < 10 THEN <<i>> ELSE Str(i \div 10) \o <<i % 10>>
\* "".join(str(i) for i in range(n))
RECURSIVE Join(_)
Join(n) == IF n = 0 THEN <<>> ELSE Join(n - 1) \o Str(n - 1)

\* Token length of a text of digits: every digit is a token of its own.
TokenLength(s) == Len(s)

\* The test (or any caller) builds a text and calls encode_text.
TokCall(n) ==
    /\ tpc = "idle"
    /\ text' = Join(n)
    /\ tpc' = "encode_text"
    /\ terr' = "none"
    /\ UNCHANGED imgVars

\* Tokenizer.encode_text(text).  The mutant returns the tokens that fit, cut
\* at the limit, instead of raising.
EncodeTextTruncating ==
    /\ tpc = "encode_text"
    /\ tpc' = "returned"
    /\ terr' = "none"
    /\ UNCHANGED <<text, imgVars>>
EncodeText ==
    /\ tpc = "encode_text"
    /\ IF TokenLength(text) > CONTEXT_LENGTH
       THEN tpc' = "raised" /\ terr' = "RuntimeError"
       ELSE tpc' = "returned" /\ terr' = "none"
    /\ UNCHANGED <<text, imgVars>>

ImgInit ==
    /\ cls = ClassAttrs
    /\ pc = [t \in Threads |-> "idle"]
    /\ arg = [t \in Threads |-> NoArg]
    /\ img = [t \in Threads |-> NoArr]
    /\ resized_h = [t \in Threads |-> 0]
    /\ resized_w = [t \in Threads |-> 0]
    /\ padding = [t \in Threads |-> <<>>]
    /\ err = [t \in Threads |-> "none"]

TokInit ==
    /\ tpc = "idle"
    /\ text = <<>>
    /\ terr = "none"

Init == ImgInit /\ TokInit

Steps(t) ==
    \/ AssertPil(t)
    \/ Resize(t)
    \/ Pad(t)
    \/ Crop(t)
    \/ Scale(t)
    \/ Grayscale(t)
    \/ NormalizeChannels(t)
    \/ ToTensor(t)

\* One call of encode_image on any argument.
Next ==
    \/ \E a \in Args : Call("t1", a)
    \/ Steps("t1")

Spec == Init /\ [][Next]_vars

\* Concurrent callers, each calling again and again.
NextThreads ==
    \E t \in Threads :
        \/ \E a \in ThreadArgs : Call(t, a)
        \/ Steps(t)
        \/ Release(t)

SpecThreads == Init /\ [][NextThreads]_vars

\* Tokenizer.encode_text on the texts "0" .. str(n - 1) joined, n <= 100.
NextTok ==
    \/ \E n \in 0 .. TEST_RANGE : TokCall(n)
    \/ EncodeText

SpecTok == Init /\ [][NextTok]_vars

(***************************************************************************)
(* Properties                                                              *)
(***************************************************************************)
\* The array is constant on the blocks cut out by the image rectangle; these
\* indices hold the first and last index of every block of an axis of length n
\* whose image part is lo .. hi - 1.
ProbeIdx(lo, hi, n) == {0, lo - 1, lo, hi - 1, hi, n - 1} \cap (0 .. n - 1)
Cells(a) == ProbeIdx(a.top, a.bottom, Rows(a)) \X ProbeIdx(a.left, a.right, Cols(a))

IsImage(t) == arg[t].kind = "PIL"
Positive(t) == arg[t].h >= 1 /\ arg[t].w >= 1
Longer(t) == Max(arg[t].h, arg[t].w)
Shorter(t) == Min(arg[t].h, arg[t].w)
AfterResize == {"pad", "crop", "scale", "gray", "normalize", "tensor", "returned"}
AfterPad == AfterResize \ {"pad"}
AfterCrop == AfterPad \ {"crop"}
\* The call left _smart_resize's resize step, by success or by an exception.
PastResize(t) == pc[t] \in AfterResize \/ (pc[t] = "raised" /\ err[t] # "AssertionError")

\* C1 as stated: for every image with H, W >= 1 and 1 or 3 channels,
\* encode_image raises nothing and what it returns has shape (1, 3, 224, 224).
C1_AnyAspectRatio ==
    \A t \in Threads :
        (IsImage(t) /\ Positive(t)) =>
            /\ pc[t] # "raised"
            /\ pc[t] = "returned" => img[t].shape = <<1, 3, 224, 224>>

\* C1 amended: the same for every image whose longer side is less than 1344
\* times its shorter side; from that ratio on, the shorter side rounds to 0
\* and the call ends in cv.resize's error instead.
C1_Shape ==
    \A t \in Threads :
        (IsImage(t) /\ Positive(t)) =>
            IF Longer(t) < 1344 * Shorter(t)
            THEN /\ pc[t] # "raised"
                 /\ pc[t] = "returned" => img[t].shape = <<1, 3, 224, 224>>
            ELSE /\ pc[t] \notin AfterResize
                 /\ pc[t] = "raised" => err[t] = "cv2.error"

C1_Witness ==
    /\ pc["t1"] = "returned"
    /\ arg["t1"].h = 1 /\ arg["t1"].w = 1343
    /\ arg["t1"].mode = "L"
    /\ img["t1"].shape = <<1, 3, 224, 224>>

\* C2: an argument that is no decoded image ends the call with the type
\* check's error, before any local of the pipeline has been written.
C2_TypeGuard ==
    \A t \in Threads :
        (arg[t].kind \in {"bytes", "ndarray"} /\ pc[t] # "assert_pil" /\ pc[t] # "idle") =>
            /\ pc[t] = "raised"
            /\ err[t] = "AssertionError"
            /\ img[t] = NoArr
            /\ resized_h[t] = 0 /\ resized_w[t] = 0
            /\ padding[t] = <<>>

C2_Witness ==
    /\ pc["t1"] = "raised"
    /\ arg["t1"].kind = "ndarray"
    /\ err["t1"] = "AssertionError"

\* C3: whenever the resize would produce a non-positive dimension (a zero-size
\* image, or a computed side <= 0), the call ends with a ShapeError raised
\* by a guard, before cv.resize is reached.
Degenerate(t) ==
    \/ arg[t].h = 0
    \/ arg[t].w = 0
    \/ 2 * 672 * Shorter(t) <= Longer(t)
C3_ShapeGuard ==
    \A t \in Threads :
        (IsImage(t) /\ Degenerate(t) /\ pc[t] \notin {"idle", "assert_pil", "resize"}) =>
            /\ pc[t] = "raised"
            /\ err[t] = "ShapeError"

\* C4: for a single-channel image the promotion comes after crop and scale
\* (the array entering it is the 224 x 224 grid of samples over 255) and
\* before normalization, which receives three channels equal at every pixel;
\* so in the tensor returned out[c] * STD[c] + MEAN[c] is the same for all c.
Denorm(x, c) == <<x[1] * cls.NORM_STD[c] + cls.NORM_MEAN[c] * x[2], 1000 * x[2]>>
C4_GrayReplicated ==
    \A t \in Threads :
        (IsImage(t) /\ arg[t].mode = "L") =>
            /\ pc[t] = "gray" =>
                /\ img[t].shape = <<CLIP_INPUT_SIZE, CLIP_INPUT_SIZE>>
                /\ \A rc \in Cells(img[t]) : At(img[t], rc[1], rc[2], 1)[2] = SCALE
            /\ pc[t] = "normalize" =>
                /\ img[t].shape = <<CLIP_INPUT_SIZE, CLIP_INPUT_SIZE, 3>>
                /\ \A rc \in Cells(img[t]) : \A c \in {2, 3} :
                      /\ At(img[t], rc[1], rc[2], c) = At(img[t], rc[1], rc[2], 1)
                      /\ At(img[t], rc[1], rc[2], c)[2] = SCALE
            /\ pc[t] = "returned" =>
                \A rc \in Cells(img[t]) : \A c \in {2, 3} :
                    RatEq(Denorm(At(img[t], rc[1], rc[2], c), c),
                          Denorm(At(img[t], rc[1], rc[2], 1), 1))

C4_Witness ==
    /\ pc["t1"] = "normalize"
    /\ arg["t1"].mode = "L"
    /\ arg["t1"].px = <<200>>
    /\ arg["t1"].h = 223 /\ arg["t1"].w = 672
    /\ At(img["t1"], 0, 0, 3) = <<200, 255>>
    /\ At(img["t1"], 223, 0, 3) = <<0, 255>>

\* C5 as stated: a 1 x 1000 image is resized to width 672 and height 1, gets
\* the same number of zero rows before and after its row, and the 224 x 224
\* crop is zero padding everywhere outside that row.
Is1x1000(t) == IsImage(t) /\ arg[t].h = 1 /\ arg[t].w = 1000
ExtremeResize(t) ==
    /\ pc[t] \in AfterResize
    /\ resized_w[t] = 672 /\ resized_h[t] = 1
ExtremeCrop(t) ==
    pc[t] \in {"scale", "gray", "normalize"} =>
        /\ Rows(img[t]) = 224 /\ Cols(img[t]) = 224
        /\ img[t].bottom = img[t].top + 1
        /\ img[t].left = 0 /\ img[t].right = 224
        /\ \A rc \in Cells(img[t]) : \A c \in DOMAIN img[t].px :
              rc[1] # img[t].top => At(img[t], rc[1], rc[2], c)[1] = 0
C5_SymmetricPad ==
    \A t \in Threads :
        (Is1x1000(t) /\ pc[t] # "assert_pil" /\ pc[t] # "resize") =>
            /\ ExtremeResize(t)
            /\ pc[t] \in AfterPad => padding[t][1][1] = padding[t][1][2]
            /\ ExtremeCrop(t)

\* C5 amended: the odd residual 671 is split into 335 zero rows before the
\* image row and 336 after it; the row is row 111 of the crop.
C5_Extreme ==
    \A t \in Threads :
        (Is1x1000(t) /\ pc[t] # "assert_pil" /\ pc[t] # "resize") =>
            /\ ExtremeResize(t)
            /\ pc[t] \in AfterPad =>
                  /\ padding[t][1] = <<335, 336>>
                  /\ padding[t][2] = <<0, 0>>
            /\ ExtremeCrop(t)
            /\ pc[t] \in {"scale", "gray", "normalize"} => img[t].top = 111

C5_Witness ==
    /\ Is1x1000("t1")
    /\ pc["t1"] = "normalize"
    /\ arg["t1"].px = <<255, 128, 7>>
    /\ At(img["t1"], 111, 5, 2) = <<128, 255>>
    /\ At(img["t1"], 110, 5, 2) = <<0, 255>>
    /\ At(img["t1"], 112, 5, 2) = <<0, 255>>

\* k is the integer nearest to n / d, a tie resolved to the even neighbour.
NearestEven(k, n, d) ==
    /\ 2 * Abs(k * d - n) <= d
    /\ 2 * Abs(k * d - n) = d => k % 2 = 0

\* C8: for H, W >= 1, H > W gives height 672 and width 672 * W / H rounded
\* half to even, otherwise width 672 and height 672 * H / W rounded likewise;
\* the longer side is 672, no residual is negative, and a square image is
\* resized to 672 x 672 and padded by nothing.
C8_ResizeDims ==
    \A t \in Threads :
        (IsImage(t) /\ Positive(t) /\ PastResize(t)) =>
            /\ IF arg[t].h > arg[t].w
               THEN /\ resized_h[t] = 672
                    /\ NearestEven(resized_w[t], 672 * arg[t].w, arg[t].h)
               ELSE /\ resized_w[t] = 672
                    /\ NearestEven(resized_h[t], 672 * arg[t].h, arg[t].w)
            /\ Max(resized_h[t], resized_w[t]) = 672
            /\ 672 - resized_h[t] >= 0 /\ 672 - resized_w[t] >= 0
            /\ arg[t].h = arg[t].w =>
                /\ resized_h[t] = 672 /\ resized_w[t] = 672
                /\ pc[t] \in AfterPad =>
                      \A i \in DOMAIN padding[t] : padding[t][i] = <<0, 0>>

\* A tie: 672 * 1 / 64 = 10.5 is rounded to 10, and the call goes on.
C8_Witness ==
    /\ pc["t1"] = "crop"
    /\ arg["t1"].h = 64 /\ arg["t1"].w = 1
    /\ resized_h["t1"] = 672 /\ resized_w["t1"] = 10

\* C9: on each spatial axis pad_before = floor(residual / 2) and pad_after =
\* residual - pad_before, so pad_after - pad_before is 0 or 1; the channel
\* axis is padded by nothing; the canvas _smart_resize returns is 672 x 672
\* on its spatial axes, for a 2-D and for a 3-D array.
C9_Padding ==
    \A t \in Threads :
        pc[t] \in AfterPad =>
            LET res == <<672 - resized_h[t], 672 - resized_w[t]>>
                p == padding[t]
            IN  /\ Len(p) = IF arg[t].mode = "L" THEN 2 ELSE 3
                /\ \A i \in {1, 2} :
                      /\ 2 * p[i][1] <= res[i] /\ res[i] < 2 * p[i][1] + 2
                      /\ p[i][2] = res[i] - p[i][1]
                      /\ p[i][2] - p[i][1] \in {0, 1}
                /\ Len(p) = 3 => p[3] = <<0, 0>>
                /\ pc[t] = "crop" =>
                      /\ img[t].shape = IF arg[t].mode = "L" THEN <<672, 672>>
                                        ELSE <<672, 672, 3>>
                      /\ img[t].top = p[1][1]
                      /\ img[t].bottom = 672 - p[1][2]
                      /\ img[t].left = p[2][1]
                      /\ img[t].right = 672 - p[2][2]

\* An odd residual on a 3-D array: 672 - 223 = 449 = 224 + 225.
C9_Witness ==
    /\ pc["t1"] = "crop"
    /\ arg["t1"].mode = "RGB"
    /\ resized_w["t1"] = 223
    /\ padding["t1"] = << <<0, 0>>, <<224, 225>>, <<0, 0>> >>
    /\ img["t1"].shape = <<672, 672, 3>>

\* C10: the crop is rows and columns 224 .. 447 of the canvas (the canvas
\* holds the resized image at rows pad_before .. pad_before + resized_h - 1,
\* and likewise for columns); it contains a padding pixel exactly when the
\* resized shorter side is below 224, and a shorter side of 223 leaves one
\* trailing padding row or column.
OnCanvas(t, r, c) ==
    /\ r >= padding[t][1][1] /\ r < padding[t][1][1] + resized_h[t]
    /\ c >= padding[t][2][1] /\ c < padding[t][2][1] + resized_w[t]
C10_CropWindow ==
    \A t \in Threads :
        pc[t] = "scale" =>
            LET a == img[t]
                short == Min(resized_h[t], resized_w[t])
                probes == Cells(a) \cup ({0, 223} \X {0, 223})
            IN  /\ a.shape[1] = 224 /\ a.shape[2] = 224
                /\ \A rc \in probes :
                      InImage(a, rc[1], rc[2]) <=> OnCanvas(t, rc[1] + 224, rc[2] + 224)
                /\ (\E rc \in probes : ~InImage(a, rc[1], rc[2])) <=> short < 224
                /\ short = 223 =>
                      \/ a.top = 0 /\ a.bottom = 223 /\ a.left = 0 /\ a.right = 224
                      \/ a.top = 0 /\ a.bottom = 224 /\ a.left = 0 /\ a.right = 223

C10_Witness ==
    /\ pc["t1"] = "scale"
    /\ arg["t1"].h = 223 /\ arg["t1"].w = 672
    /\ ~InImage(img["t1"], 223, 0)
    /\ InImage(img["t1"], 222, 0)

\* C6: two calls on the same argument end alike (both return the same tensor
\* or both raise the same exception), whatever calls ran before or between
\* them, and the class attributes keep the values they were given.
Over(t) == pc[t] \in {"returned", "raised"}
C6_Pure ==
    /\ cls = ClassAttrs
    /\ \A t, u \in Threads :
          (Over(t) /\ Over(u) /\ arg[t] = arg[u]) =>
              /\ pc[t] = pc[u]
              /\ err[t] = err[u]
              /\ pc[t] = "returned" => img[t] = img[u]

C6_Witness ==
    /\ pc["t1"] = "returned" /\ pc["t2"] = "returned"
    /\ arg["t1"] = arg["t2"]
    /\ arg["t1"].mode = "RGB"
    /\ img["t1"] = img["t2"]

\* C7: encode_text raises (RuntimeError) instead of returning whenever the
\* text is longer in tokens than the model allows, as it is for the decimal
\* strings "0" .. "99" joined.
C7_TextTooLong ==
    /\ (tpc \in {"returned", "raised"} /\ TokenLength(text) > CONTEXT_LENGTH) =>
          tpc = "raised" /\ terr = "RuntimeError"
    /\ (tpc \in {"returned", "raised"} /\ text = Join(TEST_RANGE)) =>
          tpc = "raised" /\ terr = "RuntimeError"

C7_Witness ==
    /\ tpc = "raised"
    /\ text = Join(TEST_RANGE)
    /\ Len(text) = 190

====
